---- MODULE Spec2Model ----
(***************************************************************************)
(* Model of the tensor facade of tch-rs (src/src/tensor/mod.rs): the       *)
(* operator overloads with scalar promotion, the conversions between       *)
(* tensors and host vectors, Debug rendering, random_batch2, onehot, copy  *)
(* and PartialEq.                                                          *)
(*                                                                         *)
(* A tensor is a record [kind, size, data, device]; data is the row-major  *)
(* flat buffer.  An element is a rational <<n, d>> in lowest terms, with   *)
(* d = 1 for the integer kinds; <<1,0>>, <<-1,0>> and <<0,0>> stand for    *)
(* +inf, -inf and NaN of the floating kinds.  Floating rounding is not     *)
(* modelled: the floating inputs are dyadic values every float width       *)
(* holds exactly.                                                          *)
(***************************************************************************)
EXTENDS Integers, Sequences, FiniteSets, TLC

VARIABLES op, args, out, handles, storage, origin, last

vars == <<op, args, out, handles, storage, origin, last>>

callVars == <<op, args, out>>

heapVars == <<handles, storage, origin, last>>

(***************************** bounds **************************************)
\* largest number of elements of an enumerated input tensor
MaxNumel == 4

\* largest rank of an enumerated input tensor
MaxRank == 3

(***************************** kinds ***************************************)
IntKinds == {"Uint8", "Int8", "Int16", "Int", "Int64"}

FloatKinds == {"Half", "Float", "Double"}

ComplexKinds == {"ComplexHalf", "ComplexFloat", "ComplexDouble"}

Kind == IntKinds \cup FloatKinds \cup ComplexKinds

Device == {"Cpu", "Cuda0"}

(***************************** elements ************************************)
Abs(n) == IF n < 0 THEN -n ELSE n

Sign(n) == IF n < 0 THEN -1 ELSE IF n > 0 THEN 1 ELSE 0

RECURSIVE Gcd(_, _)
Gcd(a, b) == IF b = 0 THEN a ELSE Gcd(b, a % b)

\* the rational n/d in lowest terms; d = 0 gives +inf, -inf or NaN
Norm(n, d) ==
    IF d = 0 THEN <<Sign(n), 0>>
    ELSE LET g == Gcd(Abs(n), d) IN <<(Abs(n) \div g) * Sign(n), d \div g>>

IntVal(n) == <<n, 1>>

IsInf(x) == x[2] = 0 /\ x[1] # 0

\* rounding toward zero, as a C cast from floating to integer does
Trunc(x) == Sign(x[1]) * (Abs(x[1]) \div x[2])

\* two's-complement wrap to the width of the kind; the 32 and 64 bit kinds
\* never overflow on the small inputs enumerated here
Wrap(kind, n) ==
    CASE kind = "Uint8" -> n % 256
      [] kind = "Int8"  -> ((n + 128) % 256) - 128
      [] kind = "Int16" -> ((n + 32768) % 65536) - 32768
      [] OTHER          -> n

\* element conversion of a cast to `kind`
CastTo(kind, x) ==
    IF kind \in IntKinds THEN IntVal(Wrap(kind, Trunc(x))) ELSE x

RNeg(x) == <<-x[1], x[2]>>

RAdd(x, y) ==
    IF IsInf(x) /\ IsInf(y)
    THEN (IF x[1] = y[1] THEN x ELSE <<0, 0>>)
    ELSE Norm(x[1] * y[2] + y[1] * x[2], x[2] * y[2])

RMul(x, y) == Norm(x[1] * y[1], x[2] * y[2])

RInv(x) ==
    IF x[2] = 0 THEN (IF x[1] = 0 THEN <<0, 0>> ELSE <<0, 1>>)
    ELSE IF x[1] = 0 THEN <<1, 0>>
    ELSE <<Sign(x[1]) * x[2], Abs(x[1])>>

ElemAdd(kind, x, y) ==
    IF kind \in IntKinds THEN IntVal(Wrap(kind, x[1] + y[1])) ELSE RAdd(x, y)

ElemSub(kind, x, y) ==
    IF kind \in IntKinds THEN IntVal(Wrap(kind, x[1] - y[1])) ELSE RAdd(x, RNeg(y))

ElemMul(kind, x, y) ==
    IF kind \in IntKinds THEN IntVal(Wrap(kind, x[1] * y[1])) ELSE RMul(x, y)

\* integer division truncates toward zero; the caller rules out y = 0
ElemDiv(kind, x, y) ==
    IF kind \in IntKinds
    THEN IntVal(Wrap(kind, Sign(x[1]) * Sign(y[1]) * (Abs(x[1]) \div Abs(y[1]))))
    ELSE RMul(x, RInv(y))

ElemNeg(kind, x) ==
    IF kind \in IntKinds THEN IntVal(Wrap(kind, -x[1])) ELSE RNeg(x)

\* x^(-1): the reciprocal, truncated toward zero for the integer kinds
ElemPowM1(kind, x) ==
    IF kind \in IntKinds THEN ElemDiv(kind, IntVal(1), x) ELSE RInv(x)

(***************************** tensors *************************************)
RECURSIVE Prod(_)
Prod(s) == IF s = <<>> THEN 1 ELSE Head(s) * Prod(Tail(s))

numel(t) == Prod(t.size)

MkTensor(kind, size, data) ==
    [kind |-> kind, size |-> size, data |-> data, device |-> "Cpu"]

\* outcome of a call: a value, or a panic carrying its message
Ok(v) == [ok |-> TRUE, val |-> v, msg |-> <<>>]

Panic(m) == [ok |-> FALSE, val |-> <<>>, msg |-> m]

\* a scalar operand is converted to the element kind of the tensor
ScalarAs(kind, s) == CastTo(kind, s.v)

g_add1(t, s) ==
    LET f(x) == ElemAdd(t.kind, x, ScalarAs(t.kind, s))
    IN  Ok([t EXCEPT !.data = [i \in 1..Len(t.data) |-> f(t.data[i])]])

g_sub1(t, s) ==
    LET f(x) == ElemSub(t.kind, x, ScalarAs(t.kind, s))
    IN  Ok([t EXCEPT !.data = [i \in 1..Len(t.data) |-> f(t.data[i])]])

g_mul1(t, s) ==
    LET f(x) == ElemMul(t.kind, x, ScalarAs(t.kind, s))
    IN  Ok([t EXCEPT !.data = [i \in 1..Len(t.data) |-> f(t.data[i])]])

g_div1(t, s) ==
    LET f(x) == ElemDiv(t.kind, x, ScalarAs(t.kind, s))
    IN  IF t.kind \in IntKinds /\ ScalarAs(t.kind, s) = IntVal(0) /\ numel(t) > 0
        THEN Panic(<<"engine", "division by zero">>)
        ELSE Ok([t EXCEPT !.data = [i \in 1..Len(t.data) |-> f(t.data[i])]])

f_neg(t) ==
    LET f(x) == ElemNeg(t.kind, x)
    IN  Ok([t EXCEPT !.data = [i \in 1..Len(t.data) |-> f(t.data[i])]])

\* t.pow(-1)
pow_m1(t) ==
    LET f(x) == ElemPowM1(t.kind, x)
    IN  IF t.kind \in IntKinds /\ \E i \in 1..Len(t.data) : t.data[i] = IntVal(0)
        THEN Panic(<<"engine", "division by zero">>)
        ELSE Ok([t EXCEPT !.data = [i \in 1..Len(t.data) |-> f(t.data[i])]])

(********************* reversals of impl_op_basic **************************)
\* a reversal of the addition taken from the subtraction
id_as_neg(t) == f_neg(t).val

\* fn id<T>(v: T) -> T
id(t) == t

\* a reversal that forgets the negation
neg_keep(t) == t

\* fn neg(t: Tensor) -> Tensor { t.neg() }
neg(t) == f_neg(t).val

\* fn inv(t: Tensor) -> Tensor { t.pow(-1) }; a panic of pow propagates
inv(t) == pow_m1(t)

\* impl $trait<Tensor> for i64 / f64 (and for &Tensor): $rev(rhs.$op(self));
\* a panic of the engine operation ends the call before the reversal runs

\* impl_op_basic!(Add, add, g_add1, id)
add_scalar_tensor(s, t) ==
    LET r == g_add1(t, s) IN IF r.ok THEN Ok(id(r.val)) ELSE r

\* impl_op_basic!(Mul, mul, g_mul1, id)
mul_scalar_tensor(s, t) ==
    LET r == g_mul1(t, s) IN IF r.ok THEN Ok(id(r.val)) ELSE r

\* impl_op_basic!(Sub, sub, g_sub1, neg)
sub_scalar_tensor(s, t) ==
    LET r == g_sub1(t, s) IN IF r.ok THEN Ok(neg(r.val)) ELSE r

\* impl_op_basic!(Div, div, g_div1, inv)
div_scalar_tensor(s, t) ==
    LET r == g_div1(t, s) IN IF r.ok THEN inv(r.val) ELSE r

\* impl $trait<i64> / <f64> for Tensor: self.$op(rhs)
add_tensor_scalar(t, s) == g_add1(t, s)

mul_tensor_scalar(t, s) == g_mul1(t, s)

(***************************** inputs **************************************)
RECURSIVE ShapesOfRank(_)
ShapesOfRank(r) ==
    IF r = 0 THEN {<<>>}
    ELSE {<<d>> \o s : d \in 0..MaxNumel, s \in ShapesOfRank(r - 1)}

Shapes ==
    {s \in UNION {ShapesOfRank(r) : r \in 0..MaxRank} : Prod(s) <= MaxNumel}

\* sample elements of each kind, with the extremes of the narrow kinds
Elems(kind) ==
    CASE kind = "Uint8" -> {IntVal(0), IntVal(3), IntVal(255)}
      [] kind = "Int8"  -> {IntVal(-128), IntVal(0), IntVal(2)}
      [] kind \in IntKinds -> {IntVal(-3), IntVal(0), IntVal(2)}
      [] OTHER -> {<<-2, 1>>, <<0, 1>>, <<1, 2>>}

TensorsOf(kind) ==
    UNION {{MkTensor(kind, s, d) : d \in [1..Prod(s) -> Elems(kind)]} : s \in Shapes}

ArithKinds == {"Uint8", "Int8", "Int64", "Float", "Double"}

I64(n) == [k |-> "i64", v |-> IntVal(n)]

F64(n, d) == [k |-> "f64", v |-> <<n, d>>]

IntScalars == {I64(-2), I64(0), I64(1), I64(3)}

FloatScalars == {F64(-3, 2), F64(0, 1), F64(10, 1)}

\* scalars of matching numeric kind: integer scalars for the integer kinds
\* (non-negative ones for the unsigned kind), both for the floating kinds
ScalarsFor(kind) ==
    IF kind = "Uint8" THEN {s \in IntScalars : s.v[1] >= 0}
    ELSE IF kind \in IntKinds THEN IntScalars
    ELSE IntScalars \cup FloatScalars

(***************************** calls ***************************************)
Call(name, a, r) ==
    /\ op' = name
    /\ args' = a
    /\ out' = r
    /\ UNCHANGED heapVars

AddScalarTensor ==
    /\ op = "none"
    /\ \E k \in ArithKinds : \E t \in TensorsOf(k) : \E s \in ScalarsFor(k) :
        Call("s+a", <<s, t>>, add_scalar_tensor(s, t))

MulScalarTensor ==
    /\ op = "none"
    /\ \E k \in ArithKinds : \E t \in TensorsOf(k) : \E s \in ScalarsFor(k) :
        Call("s*a", <<s, t>>, mul_scalar_tensor(s, t))

SubScalarTensor ==
    /\ op = "none"
    /\ \E k \in ArithKinds : \E t \in TensorsOf(k) : \E s \in ScalarsFor(k) :
        Call("s-a", <<s, t>>, sub_scalar_tensor(s, t))

DivScalarTensor ==
    /\ op = "none"
    /\ \E k \in ArithKinds : \E t \in TensorsOf(k) : \E s \in ScalarsFor(k) :
        Call("s/a", <<s, t>>, div_scalar_tensor(s, t))

InitCall ==
    /\ op = "none"
    /\ args = <<>>
    /\ out = Ok(<<>>)

InitHeap ==
    /\ handles = <<>>
    /\ storage = <<>>
    /\ origin = <<>>
    /\ last = <<>>

Init == InitCall /\ InitHeap

NextArith ==
    \/ AddScalarTensor
    \/ MulScalarTensor
    \/ SubScalarTensor
    \/ DivScalarTensor

SpecArith == Init /\ [][NextArith]_vars

(***************************** conversions *********************************)
\* from_tensor!(f64, 0f64, Double) ... from_tensor!(u8, 0u8, Uint8)
Typ == {"f64", "f32", "i64", "i32", "i8", "u8"}

KindOf(typ) ==
    CASE typ = "f64" -> "Double"
      [] typ = "f32" -> "Float"
      [] typ = "i64" -> "Int64"
      [] typ = "i32" -> "Int"
      [] typ = "i8"  -> "Int8"
      [] typ = "u8"  -> "Uint8"

to_kind(t, kind) ==
    LET f(x) == CastTo(kind, x)
    IN  [t EXCEPT !.kind = kind, !.data = [i \in 1..Len(t.data) |-> f(t.data[i])]]

\* tensor.get(i): the i-th slice along dimension 0 (i counted from 0)
get(t, i) ==
    LET stride == Prod(Tail(t.size))
    IN  [t EXCEPT !.size = Tail(t.size),
                  !.data = SubSeq(t.data, i * stride + 1, (i + 1) * stride)]

\* Tensor::of_slice: a rank-1 tensor of the kind of the host type
of_slice(typ, v) == MkTensor(KindOf(typ), <<Len(v)>>, v)

\* view(&[]) of a one-element tensor
view_scalar(t) == [t EXCEPT !.size = <<>>]

\* impl From<&Tensor> for Vec<$typ>
vec_from(typ, t) ==
    LET n == numel(t)
        cast == to_kind(t, KindOf(typ))
    IN  Ok([i \in 1..n |-> cast.data[i]])

\* a conversion that drops the last slice
vec2_short(typ, t) ==
    IF t.size = <<>> THEN Panic(<<"index out of bounds">>)
    ELSE Ok([i \in 1..(t.size[1] - 1) |-> vec_from(typ, get(t, i - 1)).val])

\* impl From<&Tensor> for Vec<Vec<$typ>>; size()[0] of a rank-0 tensor is out
\* of bounds
vec2_from(typ, t) ==
    IF t.size = <<>> THEN Panic(<<"index out of bounds">>)
    ELSE Ok([i \in 1..t.size[1] |-> vec_from(typ, get(t, i - 1)).val])

\* impl From<&Tensor> for Vec<Vec<Vec<$typ>>>
vec3_from(typ, t) ==
    IF t.size = <<>> THEN Panic(<<"index out of bounds">>)
    ELSE LET rows == [i \in 1..t.size[1] |-> vec2_from(typ, get(t, i - 1))]
         IN  IF \E i \in 1..t.size[1] : ~rows[i].ok
             THEN Panic(<<"index out of bounds">>)
             ELSE Ok([i \in 1..t.size[1] |-> rows[i].val])

\* an extraction that only rejects the empty tensor
scalar_first(typ, t) ==
    IF numel(t) = 0
    THEN Panic(<<"expected exactly one element, got", numel(t)>>)
    ELSE Ok(vec_from(typ, t).val[1])

\* impl From<&Tensor> for $typ
scalar_from(typ, t) ==
    IF numel(t) # 1
    THEN Panic(<<"expected exactly one element, got", numel(t)>>)
    ELSE Ok(vec_from(typ, t).val[1])

\* impl From<&[T]> for Tensor
tensor_from_slice(typ, v) == of_slice(typ, v)

\* impl From<T> for Tensor
tensor_from_scalar(typ, x) == view_scalar(of_slice(typ, <<x>>))

RECURSIVE Concat(_)
Concat(ss) == IF ss = <<>> THEN <<>> ELSE Head(ss) \o Concat(Tail(ss))

\* the host sequence of the rank of the tensor
to_host(typ, t) ==
    CASE Len(t.size) = 0 -> scalar_from(typ, t)
      [] Len(t.size) = 1 -> vec_from(typ, t)
      [] Len(t.size) = 2 -> vec2_from(typ, t)
      [] Len(t.size) = 3 -> vec3_from(typ, t)

\* the way back: From<T> for a scalar, From<&[T]> for a sequence; a nested
\* sequence has no constructor of its own and goes through the flat slice
from_host(typ, rank, h) ==
    CASE rank = 0 -> tensor_from_scalar(typ, h)
      [] rank = 1 -> tensor_from_slice(typ, h)
      [] rank = 2 -> tensor_from_slice(typ, Concat(h))
      [] rank = 3 -> tensor_from_slice(typ, Concat(Concat(h)))

TypOfKind(kind) == CHOOSE typ \in Typ : KindOf(typ) = kind

ConvKinds == {"Uint8", "Int8", "Int64", "Double"}

ScalarFrom ==
    /\ op = "none"
    /\ \E k \in ConvKinds : \E t \in TensorsOf(k) : \E typ \in Typ :
        Call("scalar", <<typ, t>>, scalar_from(typ, t))

RoundTrip ==
    /\ op = "none"
    /\ \E k \in ConvKinds : \E t \in TensorsOf(k) :
        /\ Len(t.size) <= 3
        /\ LET typ == TypOfKind(k)
               h == to_host(typ, t)
           IN  Call("roundtrip", <<typ, t, h.val>>,
                    Ok(from_host(typ, Len(t.size), h.val)))

NextConv == ScalarFrom \/ RoundTrip

SpecConv == Init /\ [][NextConv]_vars

(***************************** Debug ***************************************)
\* the bound of `if *s < 10`
DebugListLimit == 10

\* longest rank-1 tensor rendered
MaxDebugLen == 11

\* write!(f, "Tensor[{:?}, {:?}]", self.size(), self.kind())
Summary(t) == [form |-> "summary", items |-> <<t.size, t.kind>>]

\* write!(f, "[{}]", v)
Bracketed(v) == [form |-> "scalar", items |-> <<v>>]

\* write!(f, "{:?}", vec)
Listed(v) == [form |-> "list", items |-> v]

\* a rendering whose bound lets ten elements through
fmt_le(t) ==
    LET is_int == t.kind \in IntKinds
        is_float == t.kind \in FloatKinds
    IN  CASE t.size = <<>> /\ is_int -> Bracketed(scalar_from("i64", t).val)
          [] Len(t.size) = 1 /\ is_int /\ t.size[1] <= DebugListLimit ->
                Listed(vec_from("i64", t).val)
          [] t.size = <<>> /\ is_float -> Bracketed(scalar_from("f64", t).val)
          [] Len(t.size) = 1 /\ is_float /\ t.size[1] <= DebugListLimit ->
                Listed(vec_from("f64", t).val)
          [] OTHER -> Summary(t)

\* impl std::fmt::Debug for Tensor
fmt(t) ==
    LET is_int == t.kind \in IntKinds
        is_float == t.kind \in FloatKinds
    IN  CASE t.size = <<>> /\ is_int -> Bracketed(scalar_from("i64", t).val)
          [] Len(t.size) = 1 /\ is_int /\ t.size[1] < DebugListLimit ->
                Listed(vec_from("i64", t).val)
          [] t.size = <<>> /\ is_float -> Bracketed(scalar_from("f64", t).val)
          [] Len(t.size) = 1 /\ is_float /\ t.size[1] < DebugListLimit ->
                Listed(vec_from("f64", t).val)
          [] OTHER -> Summary(t)

\* data n+off, n+1+off, ... of the kind; halves for the floating kinds
Ramp(kind, n, off) ==
    [i \in 1..n |-> IF kind \in IntKinds THEN CastTo(kind, IntVal(i + off))
                    ELSE Norm(i + off, 2)]

DebugShapes ==
    {<<>>} \cup {<<n>> : n \in 0..MaxDebugLen}
           \cup {<<a, b>> : a \in 0..2, b \in 1..2} \cup {<<1, 1, 1>>}

DebugTensors ==
    {MkTensor(k, s, Ramp(k, Prod(s), off)) :
        k \in Kind, s \in DebugShapes, off \in {0, 126}}

DebugFmt ==
    /\ op = "none"
    /\ \E t \in DebugTensors : Call("fmt", <<t>>, Ok(fmt(t)))

NextDebug == DebugFmt

SpecDebug == Init /\ [][NextDebug]_vars

(***************************** handles *************************************)
\* most handles alive at once
MaxHandles == 3

\* most compound assignments in a run
MaxAssign == 2

zeros_like(t) == [t EXCEPT !.data = [i \in 1..Len(t.data) |-> IntVal(0)]]

\* dst.copy_(src): an element-wise store into the storage of dst
copy_(dst, src) ==
    LET f(x) == CastTo(dst.kind, x) IN [dst EXCEPT !.data = [i \in 1..Len(src.data) |-> f(src.data[i])]]

\* the value a handle reads
Read(H, S, h) == S[H[h]]

\* Tensor::shallow_clone: a new handle on the same storage
shallow_clone(H, S, h) == [handles |-> Append(H, H[h]), storage |-> S]

\* a copy that hands out the storage of its source
copy_shared(H, S, h) == [handles |-> Append(H, H[h]), storage |-> S]

\* Tensor::copy: zeros_like allocates, copy_ fills
copy(H, S, h) ==
    LET result == zeros_like(Read(H, S, h))
    IN  [handles |-> Append(H, Len(S) + 1),
         storage |-> Append(S, copy_(result, Read(H, S, h)))]

\* impl_op_assign_basic!(AddAssign, add_assign, g_add_1): the in-place engine
\* operation writes the storage of self; its result is dropped
add_assign(H, S, h, s) ==
    [handles |-> H, storage |-> [S EXCEPT ![H[h]] = g_add1(@, s).val]]

\* impl_op_assign_basic!(MulAssign, mul_assign, g_mul_1)
mul_assign(H, S, h, s) ==
    [handles |-> H, storage |-> [S EXCEPT ![H[h]] = g_mul1(@, s).val]]

HeapTensors ==
    {[MkTensor(k, <<2>>, d) EXCEPT !.device = dev] :
        k \in {"Uint8", "Int64"}, d \in {<<IntVal(0), IntVal(3)>>}, dev \in Device}

AssignScalars == {I64(1), I64(3)}

InitAlias ==
    /\ InitCall
    /\ \E t \in HeapTensors :
          /\ handles = <<1>>
          /\ storage = <<t>>
    /\ origin = <<[how |-> "new", of |-> 1]>>
    /\ last = [op |-> "new", h |-> 1, s |-> I64(0), n |-> 0]

Step(r, how, h, s, n) ==
    /\ handles' = r.handles
    /\ storage' = r.storage
    /\ origin' = IF Len(r.handles) > Len(handles)
                 THEN Append(origin, [how |-> how, of |-> h]) ELSE origin
    /\ last' = [op |-> how, h |-> h, s |-> s, n |-> n]
    /\ UNCHANGED callVars

ShallowClone ==
    /\ Len(handles) < MaxHandles
    /\ \E h \in DOMAIN handles :
          Step(shallow_clone(handles, storage, h), "shallow_clone", h, I64(0), last.n)

Copy ==
    /\ Len(handles) < MaxHandles
    /\ \E h \in DOMAIN handles :
          Step(copy(handles, storage, h), "copy", h, I64(0), last.n)

AddAssign ==
    /\ last.n < MaxAssign
    /\ \E h \in DOMAIN handles : \E s \in AssignScalars :
          Step(add_assign(handles, storage, h, s), "add_assign", h, s, last.n + 1)

MulAssign ==
    /\ last.n < MaxAssign
    /\ \E h \in DOMAIN handles : \E s \in AssignScalars :
          Step(mul_assign(handles, storage, h, s), "mul_assign", h, s, last.n + 1)

NextAlias == ShallowClone \/ Copy \/ AddAssign \/ MulAssign

SpecAlias == InitAlias /\ [][NextAlias]_vars

\* the handle a chain of shallow clones started from
RECURSIVE Root(_, _)
Root(o, h) == IF o[h].how = "shallow_clone" THEN Root(o, o[h].of) ELSE h

Aliased(o, x, y) == Root(o, x) = Root(o, y)

(***************************** PartialEq ***********************************)
\* longest dimension of the tensors compared
MaxEqLen == 2

NaN == <<0, 0>>

\* f_eq1: element-wise equality as a byte tensor; the engine refuses operands
\* of different kinds, and may fail for reasons of its own (`fails`)
f_eq1(a, b, fails) ==
    IF fails \/ a.kind # b.kind THEN Panic(<<"engine", "eq">>)
    ELSE Ok(MkTensor("Uint8", a.size,
            [i \in 1..Len(a.data) |->
                IF a.data[i] = b.data[i] /\ a.data[i] # NaN THEN IntVal(1)
                ELSE IntVal(0)]))

\* f_all: the conjunction of a byte tensor as a rank-0 byte tensor
f_all(v, fails) ==
    IF fails \/ v.kind # "Uint8" THEN Panic(<<"engine", "all">>)
    ELSE Ok(MkTensor("Uint8", <<>>,
            <<IF \A i \in 1..Len(v.data) : v.data[i] # IntVal(0)
              THEN IntVal(1) ELSE IntVal(0)>>))

\* a comparison that unwraps the engine results
eq_unwrap(a, b, fails1, fails2) ==
    IF a.size # b.size THEN Ok(FALSE)
    ELSE LET r == f_eq1(a, b, fails1) IN
         IF ~r.ok THEN r
         ELSE LET v == f_all(r.val, fails2) IN
              IF ~v.ok THEN v
              ELSE LET x == scalar_from("i64", v.val) IN
                   IF x.ok THEN Ok(x.val[1] > 0) ELSE x

\* impl PartialEq for Tensor
eq(a, b, fails1, fails2) ==
    IF a.size # b.size THEN Ok(FALSE)
    ELSE LET r == f_eq1(a, b, fails1) IN
         IF ~r.ok THEN Ok(FALSE)
         ELSE LET v == f_all(r.val, fails2) IN
              IF ~v.ok THEN Ok(FALSE)
              ELSE LET x == scalar_from("i64", v.val) IN
                   IF x.ok THEN Ok(x.val[1] > 0) ELSE x

EqShapes ==
    {<<>>} \cup {<<n>> : n \in 0..MaxEqLen}
           \cup {sh \in {<<a, b>> : a \in 0..MaxEqLen, b \in 1..MaxEqLen} :
                    Prod(sh) <= MaxEqLen}

EqTensors ==
    UNION {{MkTensor(k, sh, d) : d \in [1..Prod(sh) -> {IntVal(0), IntVal(2)}]} :
              k \in {"Uint8", "Int64", "Double"}, sh \in EqShapes}

PartialEq ==
    /\ op = "none"
    /\ \E a \in EqTensors : \E b \in EqTensors : \E f1 \in BOOLEAN : \E f2 \in BOOLEAN :
          Call("eq", <<a, b, f1, f2>>, eq(a, b, f1, f2))

NextEq == PartialEq

SpecEq == Init /\ [][NextEq]_vars

(***************************** random_batch2 *******************************)
\* most rows of a batched tensor
MaxRows == 3

\* largest batch size
MaxBatch == 2

\* index_select(0, index): the rows of t named by index (counted from 0)
index_select(t, index) ==
    [t EXCEPT !.size = <<Len(index)>> \o Tail(t.size),
              !.data = Concat([i \in 1..Len(index) |-> get(t, index[i]).data])]

to_device(t, device) == [t EXCEPT !.device = device]

Reverse(q) == [i \in 1..Len(q) |-> q[Len(q) + 1 - i]]

\* a pairing that gathers the second batch in the opposite order
random_batch2_rev(t1, t2, batch_size, device, index) ==
    IF t1.size = <<>> \/ t2.size = <<>> THEN Panic(<<"index out of bounds">>)
    ELSE IF t1.size[1] # t2.size[1]
    THEN Panic(<<"random_batch2: shape mismatch", t1.size, t2.size>>)
    ELSE IF Len(index) # batch_size THEN Panic(<<"engine", "randint">>)
    ELSE Ok(<<to_device(index_select(t1, index), device),
              to_device(index_select(t2, Reverse(index)), device)>>)

\* Tensor::random_batch2; `index` is the draw of randint(len1, [batch_size]),
\* which has no value to return when len1 = 0 < batch_size
random_batch2(t1, t2, batch_size, device, index) ==
    IF t1.size = <<>> \/ t2.size = <<>> THEN Panic(<<"index out of bounds">>)
    ELSE IF t1.size[1] # t2.size[1]
    THEN Panic(<<"random_batch2: shape mismatch", t1.size, t2.size>>)
    ELSE IF Len(index) # batch_size THEN Panic(<<"engine", "randint">>)
    ELSE Ok(<<to_device(index_select(t1, index), device),
              to_device(index_select(t2, index), device)>>)

\* the draws of randint(len, [n]): every vector of n indices below len
Randint(len, n) ==
    IF len = 0 /\ n > 0 THEN {<<>>} ELSE [1..n -> 0..(len - 1)]

BatchTensors(k, off) ==
    {MkTensor(k, <<>>, Ramp(k, 1, off))}
        \cup {MkTensor(k, <<r>>, Ramp(k, r, off)) : r \in 0..MaxRows}
        \cup {MkTensor(k, <<r, 2>>, Ramp(k, 2 * r, off)) : r \in 0..MaxRows}

LeadingDim(t) == IF t.size = <<>> THEN 0 ELSE t.size[1]

RandomBatch2 ==
    /\ op = "none"
    /\ \E t1 \in BatchTensors("Int64", 0) : \E t2 \in BatchTensors("Double", 20) :
       \E n \in 0..MaxBatch : \E device \in Device :
       \E index \in Randint(LeadingDim(t1), n) :
          Call("random_batch2", <<t1, t2, n, device>>,
               random_batch2(t1, t2, n, device, index))

NextBatch == RandomBatch2

SpecBatch == Init /\ [][NextBatch]_vars

(***************************** onehot **************************************)
\* largest number of labels
MaxLabels == 4

zeros(size, kind) == MkTensor(kind, size, [i \in 1..Prod(size) |-> IntVal(0)])

ones(size, kind) == MkTensor(kind, size, [i \in 1..Prod(size) |-> IntVal(1)])

\* unsqueeze(-1): a view with a trailing dimension of one
unsqueeze_last(t) == [t EXCEPT !.size = t.size \o <<1>>]

Last(q) == q[Len(q)]

\* S[r].scatter_(-1, index, src) with a rank-0 src: writes src into the
\* storage of the receiver at the index of each position along the last
\* axis; an index outside the axis is an engine error
scatter_(S, r, index, src) ==
    LET L == Last(S[r].size)
        hit(q) == index.data[((q - 1) \div L) + 1] = IntVal((q - 1) % L)
    IN  IF \E p \in 1..Len(index.data) :
              index.data[p][1] < 0 \/ index.data[p][1] >= L
        THEN Panic(<<"engine", "scatter_">>)
        ELSE Ok([S EXCEPT ![r].data =
                    [q \in 1..Len(S[r].data) |->
                        IF hit(q) THEN src.data[1] ELSE S[r].data[q]]])

\* an encoding that puts the label axis first
onehot_axis_first(t, labels) ==
    LET S == <<t, zeros(<<labels>> \o t.size, "Float")>>
        index == to_kind(unsqueeze_last(S[1]), "Int64")
        r == scatter_(S, 2, index, ones(<<>>, "Float"))
    IN  IF r.ok THEN Ok([result |-> r.val[2], self |-> r.val[1]]) ELSE r

\* Tensor::onehot; S holds the storage of self and of the new zero tensor,
\* the call returns the new tensor and leaves self as the storage holds it
onehot(t, labels) ==
    LET S == <<t, zeros(t.size \o <<labels>>, "Float")>>
        index == to_kind(unsqueeze_last(S[1]), "Int64")
        r == scatter_(S, 2, index, ones(<<>>, "Float"))
    IN  IF r.ok THEN Ok([result |-> r.val[2], self |-> r.val[1]]) ELSE r

OneHot ==
    /\ op = "none"
    /\ \E k \in {"Uint8", "Int64", "Double"} : \E t \in TensorsOf(k) :
       \E labels \in 0..MaxLabels :
          Call("onehot", <<t, labels>>, onehot(t, labels))

NextOneHot == OneHot

SpecOneHot == Init /\ [][NextOneHot]_vars

(***************************** claims **************************************)
\* the element-wise results s + a[i], s - a[i], s * a[i] and s / a[i],
\* computed on the elements
PointwiseAdd(s, t) ==
    [t EXCEPT !.data = [i \in 1..Len(t.data) |->
                           ElemAdd(t.kind, ScalarAs(t.kind, s), t.data[i])]]

PointwiseSub(s, t) ==
    [t EXCEPT !.data = [i \in 1..Len(t.data) |->
                           ElemSub(t.kind, ScalarAs(t.kind, s), t.data[i])]]

PointwiseMul(s, t) ==
    [t EXCEPT !.data = [i \in 1..Len(t.data) |->
                           ElemMul(t.kind, ScalarAs(t.kind, s), t.data[i])]]

PointwiseDiv(s, t) ==
    [t EXCEPT !.data = [i \in 1..Len(t.data) |->
                           ElemDiv(t.kind, ScalarAs(t.kind, s), t.data[i])]]

\* C1: s - a is the element-wise difference s - a[i] with the shape of a,
\* the negation of a - s.
C1_SubReversal ==
    op = "s-a" =>
        /\ out.ok
        /\ out.val = PointwiseSub(args[1], args[2])
        /\ out.val = f_neg(g_sub1(args[2], args[1]).val).val
        /\ out.val.size = args[2].size

\* C1 scenario: a = [1.0, 2.0, 3.0], s = 10.0 gives [9.0, 8.0, 7.0]; here the
\* same case on the sample values: a = [0.0, 0.5, -2.0] gives [10.0, 9.5, 12.0]
C1_Witness ==
    /\ op = "s-a"
    /\ args[1] = F64(10, 1)
    /\ args[2] = MkTensor("Double", <<3>>, <<IntVal(0), <<1, 2>>, IntVal(-2)>>)
    /\ out.ok
    /\ out.val.data = <<IntVal(10), <<19, 2>>, IntVal(12)>>

\* C2 (as claimed): for an a without zero elements, of any kind, s / a succeeds
\* and is the element-wise quotient s / a[i].
C2_DivReversalAllKinds ==
    (op = "s/a" /\ \A i \in 1..Len(args[2].data) : args[2].data[i] # IntVal(0)) =>
        /\ out.ok
        /\ out.val = PointwiseDiv(args[1], args[2])

\* C3: s + a and s * a equal a + s and a * s, the element-wise sum and
\* product, for every scalar of matching numeric kind.
C3_PromotionSymmetry ==
    /\ op = "s+a" =>
          /\ out = add_tensor_scalar(args[2], args[1])
          /\ out.ok
          /\ out.val = PointwiseAdd(args[1], args[2])
    /\ op = "s*a" =>
          /\ out = mul_tensor_scalar(args[2], args[1])
          /\ out.ok
          /\ out.val = PointwiseMul(args[1], args[2])

\* 3 + [255, 3] on unsigned bytes wraps to [2, 6], as [255, 3] + 3 does
C3_Witness ==
    /\ op = "s+a"
    /\ args[1] = I64(3)
    /\ args[2] = MkTensor("Uint8", <<2>>, <<IntVal(255), IntVal(3)>>)
    /\ out.ok
    /\ out.val.data = <<IntVal(2), IntVal(6)>>

\* C4 (as claimed): extraction panics with the element count unless the count
\* is 1, and then returns the element unchanged.
C4_ExtractUnchanged ==
    op = "scalar" =>
        LET t == args[2] IN
        IF numel(t) # 1
        THEN ~out.ok /\ out.msg = <<"expected exactly one element, got", numel(t)>>
        ELSE out.ok /\ out.val = t.data[1]

\* C4 (amended): extraction panics with the element count unless the count is
\* 1, and then returns the element cast to the host kind, which is the element
\* itself when the tensor has that kind.
C4_ExtractGuard ==
    op = "scalar" =>
        LET t == args[2]
            k == KindOf(args[1])
        IN  IF numel(t) # 1
            THEN ~out.ok /\ out.msg = <<"expected exactly one element, got", numel(t)>>
            ELSE /\ out.ok
                 /\ out.val = CastTo(k, t.data[1])
                 /\ t.kind = k => out.val = t.data[1]

\* a one-element tensor of rank 2 yields its element; 255 read as i8 is -1
C4_Witness ==
    /\ op = "scalar"
    /\ args[1] = "i8"
    /\ args[2] = MkTensor("Uint8", <<1, 1>>, <<IntVal(255)>>)
    /\ out.ok
    /\ out.val = IntVal(-1)

\* the host sequence follows the shape, dimension 0 outermost
HostFollowsShape(t, h) ==
    CASE Len(t.size) = 0 -> h = t.data[1]
      [] Len(t.size) = 1 -> h = t.data
      [] Len(t.size) = 2 ->
            /\ Len(h) = t.size[1]
            /\ \A i \in 1..t.size[1] :
                  /\ Len(h[i]) = t.size[2]
                  /\ \A j \in 1..t.size[2] : h[i][j] = t.data[(i - 1) * t.size[2] + j]
      [] Len(t.size) = 3 ->
            /\ Len(h) = t.size[1]
            /\ \A i \in 1..t.size[1] :
                  /\ Len(h[i]) = t.size[2]
                  /\ \A j \in 1..t.size[2] :
                        /\ Len(h[i][j]) = t.size[3]
                        /\ \A k \in 1..t.size[3] :
                              h[i][j][k] =
                                t.data[((i - 1) * t.size[2] + (j - 1)) * t.size[3] + k]

C9_DebugByRankOnly ==
    op = "fmt" =>
        LET t == args[1] IN
        /\ Len(t.size) = 0 => out.val.form = "scalar"
        /\ (Len(t.size) = 1 /\ t.size[1] < 10) => out.val.form = "list"
        /\ (Len(t.size) > 1 \/ (Len(t.size) = 1 /\ t.size[1] >= 10)) =>
              out.val.form = "summary"

\* C9 (amended): a tensor of an integer or floating kind renders as a
\* bracketed scalar at rank 0 and as the list of its elements at rank 1 with
\* fewer than 10 elements; every other tensor, and every tensor of a complex
\* kind, renders as the summary of its shape and kind.
C9_DebugRendering ==
    op = "fmt" =>
        LET t == args[1]
            real == t.kind \notin ComplexKinds
        IN  /\ (real /\ Len(t.size) = 0) => out.val = Bracketed(t.data[1])
            /\ (real /\ Len(t.size) = 1 /\ t.size[1] < 10) => out.val = Listed(t.data)
            /\ (~real \/ Len(t.size) > 1 \/ (Len(t.size) = 1 /\ t.size[1] >= 10)) =>
                  out.val = [form |-> "summary", items |-> <<t.size, t.kind>>]

\* a rank-0 tensor of a complex kind renders as a summary
C9_Witness ==
    /\ op = "fmt"
    /\ args[1].kind = "ComplexFloat"
    /\ args[1].size = <<>>
    /\ out.val.form = "summary"

\* C5: a compound assignment through a handle is read through every alias of
\* that handle (the shallow clones of one tensor, in any order of cloning) and
\* through no other handle; a copy holds the value its source had at copy
\* time, in new storage of the same shape and device, and changes nothing.
C5_Aliasing ==
    [][ /\ (last'.n = last.n + 1) =>
            \A x \in DOMAIN handles :
                IF Aliased(origin, x, last'.h)
                THEN Read(handles', storage', x) =
                        (IF last'.op = "add_assign"
                         THEN PointwiseAdd(last'.s, Read(handles, storage, last'.h))
                         ELSE PointwiseMul(last'.s, Read(handles, storage, last'.h)))
                ELSE Read(handles', storage', x) = Read(handles, storage, x)
        /\ (last'.op = "copy" /\ Len(handles') = Len(handles) + 1) =>
            /\ Read(handles', storage', Len(handles')) =
                  Read(handles, storage, last'.h)
            /\ \A x \in DOMAIN handles :
                  Read(handles', storage', x) = Read(handles, storage, x)
      ]_vars

\* a, its shallow clone b and its copy c, after a += 1: b reads the new
\* value, c the old one
C5_Witness ==
    /\ Len(handles) = 3
    /\ origin[2] = [how |-> "shallow_clone", of |-> 1]
    /\ origin[3] = [how |-> "copy", of |-> 1]
    /\ last.op = "add_assign" /\ last.h = 1 /\ last.n = 1 /\ last.s = I64(1)
    /\ Read(handles, storage, 1).data = <<IntVal(1), IntVal(4)>>
    /\ Read(handles, storage, 2).data = <<IntVal(1), IntVal(4)>>
    /\ Read(handles, storage, 3).data = <<IntVal(0), IntVal(3)>>

\* C6: equality never panics, and is true exactly when the shapes are equal,
\* both engine steps succeed and every pair of elements is equal.
C6_EqualityTotal ==
    op = "eq" =>
        LET a == args[1]
            b == args[2]
        IN  /\ out.ok
            /\ out.val \in BOOLEAN
            /\ out.val <=> /\ a.size = b.size
                           /\ ~args[3] /\ ~args[4]
                           /\ a.kind = b.kind
                           /\ \A i \in 1..Len(a.data) : a.data[i] = b.data[i]

\* tensors of one shape and different kinds compare unequal without a panic
C6_Witness ==
    /\ op = "eq"
    /\ args[1].size = <<2>> /\ args[2].size = <<2>>
    /\ args[1].kind = "Int64" /\ args[2].kind = "Double"
    /\ args[1].data = args[2].data
    /\ ~args[3] /\ ~args[4]
    /\ out.ok /\ out.val = FALSE

\* C7: with different leading dimensions random_batch2 panics with both
\* shapes; with equal ones it returns whenever an index can be drawn, both
\* batches have batch_size rows, and one index vector gathers both.
C7_BatchPairing ==
    op = "random_batch2" =>
        LET t1 == args[1]
            t2 == args[2]
            n == args[3]
        IN  (t1.size # <<>> /\ t2.size # <<>>) =>
            IF t1.size[1] # t2.size[1]
            THEN ~out.ok /\ out.msg = <<"random_batch2: shape mismatch", t1.size, t2.size>>
            ELSE /\ t1.size[1] > 0 => out.ok
                 /\ out.ok =>
                    /\ out.val[1].size = <<n>> \o Tail(t1.size)
                    /\ out.val[2].size = <<n>> \o Tail(t2.size)
                    /\ \E idx \in [1..n -> 0..(t1.size[1] - 1)] :
                          \A i \in 1..n :
                             /\ get(out.val[1], i - 1).data = get(t1, idx[i]).data
                             /\ get(out.val[2], i - 1).data = get(t2, idx[i]).data

\* a batch of two different rows of three-row tensors
C7_Witness ==
    /\ op = "random_batch2"
    /\ args[1].size = <<3, 2>> /\ args[2].size = <<3>>
    /\ args[3] = 2
    /\ out.ok
    /\ out.val[1].data = <<IntVal(5), IntVal(6), IntVal(1), IntVal(2)>>
    /\ out.val[2].data = <<<<23, 2>>, <<21, 2>>>>

\* C10: for labels in 0..num_labels-1 onehot returns a Float tensor of shape
\* size ++ [num_labels] holding 1.0 at the label of each position and 0.0
\* elsewhere, one 1.0 per trailing vector, and leaves its input unchanged.
C10_OneHot ==
    op = "onehot" =>
        LET t == args[1]
            L == args[2]
        IN  (\A p \in 1..Len(t.data) :
                 t.data[p][2] = 1 /\ t.data[p][1] \in 0..(L - 1)) =>
            /\ out.ok
            /\ out.val.self = t
            /\ out.val.result.kind = "Float"
            /\ out.val.result.size = t.size \o <<L>>
            /\ Len(out.val.result.data) = Len(t.data) * L
            /\ \A p \in 1..Len(t.data) :
                  /\ \A j \in 0..(L - 1) :
                        out.val.result.data[(p - 1) * L + j + 1] =
                            (IF t.data[p] = IntVal(j) THEN IntVal(1) ELSE IntVal(0))
                  /\ Cardinality({j \in 0..(L - 1) :
                        out.val.result.data[(p - 1) * L + j + 1] = IntVal(1)}) = 1

\* labels [0, 2] with 4 labels give the rows [1,0,0,0] and [0,0,1,0]
C10_Witness ==
    /\ op = "onehot"
    /\ args[1] = MkTensor("Int64", <<2>>, <<IntVal(0), IntVal(2)>>)
    /\ args[2] = 4
    /\ out.ok
    /\ out.val.result.size = <<2, 4>>
    /\ out.val.result.data = <<IntVal(1), IntVal(0), IntVal(0), IntVal(0),
                               IntVal(0), IntVal(0), IntVal(1), IntVal(0)>>

====
